---- MODULE Spec2Model ----
(***************************************************************************)
(* Model of the AssetOpsBench planning workflow                            *)
(* (src/src/agent_hive/workflows/track1_planning.py, NewPlanningWorkflow)  *)
(* and of the scenario validator exercised by src/tests.                   *)
(*                                                                         *)
(* A text (description, agent name, reply line, file name) is a sequence   *)
(* of tokens.  A token is a word, or the marker "#S" followed by decimal   *)
(* digits.  Object identity of Task objects is an oid.                     *)
(***************************************************************************)
EXTENDS Integers, Sequences, FiniteSets, TLC

VARIABLES
    pc,                  \* position of the run of the workflow
    self_tasks,          \* self.tasks
    llm,                 \* self.llm
    memory,              \* self.memory
    max_memory,          \* self.max_memory
    max_retries,         \* self.max_retries
    save_plan,           \* generate_steps argument
    saved_plan_filename, \* generate_steps argument (local, may get ".txt")
    llm_calls,           \* number of calls of watsonx_llm so far
    final_plan,          \* the model reply, a sequence of lines
    tasks, agents, dependencies, outputs,  \* the four findall results
    files,               \* the file system: set of [name, content]
    raised,              \* the exception that ended the run, or "none"
    planned_tasks,       \* the list being built
    i,                   \* loop index (0-based, as in the code)
    next_oid,            \* identity of the next Task object created
    result,              \* value returned by generate_steps
    v_pc,                \* position of the run of the validator
    v_record,            \* the record handed to validate_scenario
    v_errors,            \* the error list validate_scenario returned
    v_scenario,          \* the Scenario object built from the record
    v_file,              \* the file handed to validate_file
    v_index,             \* number of entries of the file checked so far
    v_file_errors,       \* the error list of validate_file
    v_dir,               \* the directory handed to find_json_files
    v_recursive,         \* whether sub-directories are scanned too
    v_found              \* the list find_json_files returned

pvars == <<pc, self_tasks, llm, memory, max_memory, max_retries, save_plan,
           saved_plan_filename, llm_calls, final_plan, tasks, agents,
           dependencies, outputs, files, raised, planned_tasks, i, next_oid,
           result>>

vvars == <<v_pc, v_record, v_errors, v_scenario, v_file, v_index,
           v_file_errors, v_dir, v_recursive, v_found>>

vars == <<pvars, vvars>>

\* ---------------------------------------------------------------- bounds
\* the largest number of lines of one kind in a model reply
MaxSteps == 3
\* the longest tasks list handed to the constructor
MaxTasks == 2
\* the largest number of entries of a scenario file
MaxRecords == 3
\* the largest number of entries left in self.memory before a call
MaxEntries == 2

\* ------------------------------------------------------- program constants
MaxMemoryValue == 10
MaxRetriesValue == 5

\* ------------------------------------------------------------------ texts
W(w) == [w |-> w, digits |-> <<>>]
SRef(ds) == [w |-> "#S", digits |-> ds]

NoneText == <<W("None")>>

\* int(): the value of a string of decimal digits
RECURSIVE int(_)
int(ds) == IF Len(ds) = 0 THEN 0
           ELSE 10 * int(SubSeq(ds, 1, Len(ds) - 1)) + ds[Len(ds)]

\* re.findall(r"#<kind>\d+: (.+)", final_plan): the captured text of every
\* line of that kind that has at least one label digit and a non-empty text,
\* in the order of occurrence; the label digits are not captured
IsMatch_kind_only(line, kind) == line.kind = kind

IsMatch(line, kind) ==
    /\ line.kind = kind
    /\ Len(line.label) > 0
    /\ Len(line.text) > 0

\* findall with the captured texts put in the order of their label numbers
findall_by_label(kind, plan) ==
    LET idx == {p \in 1..Len(plan) : IsMatch(plan[p], kind)}
        rank(p) == 1 + Cardinality(
                     {q \in idx :
                        \/ int(plan[q].label) < int(plan[p].label)
                        \/ (int(plan[q].label) = int(plan[p].label) /\ q < p)})
    IN [k \in 1..Cardinality(idx) |->
            plan[CHOOSE p \in idx : rank(p) = k].text]

RECURSIVE findall(_, _)
findall(kind, plan) ==
    IF Len(plan) = 0 THEN <<>>
    ELSE IF IsMatch(plan[1], kind)
         THEN <<plan[1].text>> \o findall(kind, Tail(plan))
         ELSE findall(kind, Tail(plan))

\* re.findall(r"#S(\d+)", dependency): the digit strings of the #S tokens
IsSRef(tok) == tok.w = "#S" /\ Len(tok.digits) > 0

RECURSIVE findall_S(_)
findall_S(dependency) ==
    IF Len(dependency) = 0 THEN <<>>
    ELSE IF IsSRef(dependency[1])
         THEN <<dependency[1].digits>> \o findall_S(Tail(dependency))
         ELSE findall_S(Tail(dependency))

\* list indexing that takes no negative index
InRange_nonneg(lst, k) == 0 <= k /\ k < Len(lst)

\* Python list indexing lst[k]: a negative k counts from the end
InRange(lst, k) == -Len(lst) <= k /\ k < Len(lst)

PyGet(lst, k) == IF k >= 0 THEN lst[k + 1] ELSE lst[Len(lst) + k + 1]

\* ----------------------------------------------------------------- inputs
Agent(name, description) == [name |-> name, description |-> description]

IoTAgent == Agent(<<W("IoT")>>, <<W("sensor"), W("data")>>)
IoTAgent2 == Agent(<<W("IoT")>>, <<W("second"), W("IoT")>>)
FMSRAgent == Agent(<<W("FMSR")>>, <<W("failure"), W("modes")>>)

Rosters == { <<IoTAgent>>,
             <<FMSRAgent, IoTAgent>>,
             <<FMSRAgent, IoTAgent, IoTAgent2>> }

\* the agents attribute of a Task: None, or a list of agents
NoAgents == [is_none |-> TRUE, list |-> <<>>]
AgentList(l) == [is_none |-> FALSE, list |-> l]

\* an input Task: a goal and its agents (None, empty, or a roster)
InputTask(a) == [description |-> <<W("goal")>>, agents |-> a]

InputTasks ==
    { InputTask(AgentList(l)) : l \in Rosters \cup {<<>>} }
    \cup { InputTask(NoAgents) }

\* the tasks argument of the constructor: a list of input Tasks, or a value
\* that is no list (a bare Task)
TasksArgs ==
    { [isList |-> FALSE, items |-> <<t>>] : t \in InputTasks }
    \cup
    { [isList |-> TRUE, items |-> its] :
        its \in UNION { [1..n -> InputTasks] : n \in 0..MaxTasks } }

\* one line of a reply: "#<kind><label>: <text>"
Line(kind, label, text) == [kind |-> kind, label |-> label, text |-> text]

Num(k) == [w |-> "", digits |-> <<k>>]
TaskText(k) == <<W("do"), Num(k)>>
OutText(k) == <<W("out"), Num(k)>>

\* the dependency text of a step that depends on the step before it
ChainDep(k) == IF k = 1 THEN NoneText ELSE <<SRef(<<k - 1>>)>>

\* the agent names a reply may use, by scheme
NameSchemes == {"exact", "wrong_case", "alternate"}

ReplyName(scheme, k) ==
    CASE scheme = "exact" -> <<W("IoT")>>
      [] scheme = "wrong_case" -> <<W("iot")>>
      [] OTHER -> IF k % 2 = 1 THEN <<W("FMSR")>> ELSE <<W("Unknown")>>

\* the dependency texts a reply may use
DepTexts == { NoneText,
              <<SRef(<<1>>)>>,
              <<SRef(<<2>>), SRef(<<1>>)>>,
              <<SRef(<<1>>), SRef(<<2>>)>>,
              <<SRef(<<0>>)>>,
              <<SRef(<<0, 1>>)>>,
              <<W("None"), SRef(<<1>>)>>,
              <<W("after"), [w |-> "#S", digits |-> <<>>]>> }

\* the reply with nT task lines, nA agent lines, nD dependency lines and
\* nO expected-output lines, written step by step; the k-th dependency
\* line carries deps[k], or ChainDep(k) beyond the end of deps
RECURSIVE MkReply(_, _, _, _, _, _, _)
MkReply(k, nT, nA, nD, nO, scheme, deps) ==
    IF k > nT /\ k > nA /\ k > nD /\ k > nO THEN <<>>
    ELSE (IF k <= nT THEN <<Line("Task", <<k>>, TaskText(k))>> ELSE <<>>)
      \o (IF k <= nA THEN <<Line("Agent", <<k>>, ReplyName(scheme, k))>>
          ELSE <<>>)
      \o (IF k <= nD
          THEN <<Line("Dependency", <<k>>,
                      IF k <= Len(deps) THEN deps[k] ELSE ChainDep(k))>>
          ELSE <<>>)
      \o (IF k <= nO THEN <<Line("ExpectedOutput", <<k>>, OutText(k))>>
          ELSE <<>>)
      \o MkReply(k + 1, nT, nA, nD, nO, scheme, deps)

\* replies whose four sections have any lengths
CountReplies ==
    { MkReply(1, nT, nA, nD, nO, "exact", <<>>) :
        nT \in 0..MaxSteps, nA \in 0..MaxSteps,
        nD \in 0..MaxSteps, nO \in 0..MaxSteps }

\* replies with matched sections and any dependency text on every step
DepReplies ==
    UNION { { MkReply(1, n, n, n, n, "exact", deps) :
                deps \in [1..n -> DepTexts] } : n \in 1..MaxSteps }

\* replies with matched sections and any naming scheme
NameReplies ==
    { MkReply(1, n, n, n, n, scheme, <<>>) :
        n \in 1..MaxSteps, scheme \in NameSchemes }

\* the label digits of the k-th step of n, by scheme: counted down,
\* always 1, or in tens
LabelSchemes == {"reversed", "repeated", "gapped"}

LabelOf(scheme, k, n) ==
    CASE scheme = "reversed" -> <<n + 1 - k>>
      [] scheme = "repeated" -> <<1>>
      [] OTHER -> <<k, 0>>

\* the reply of n steps labelled by scheme; the agent names alternate and
\* every later step depends on the first
RECURSIVE MkLabelled(_, _, _)
MkLabelled(k, n, scheme) ==
    IF k > n THEN <<>>
    ELSE << Line("Task", LabelOf(scheme, k, n), TaskText(k)),
            Line("Agent", LabelOf(scheme, k, n),
                 IF k % 2 = 1 THEN <<W("IoT")>> ELSE <<W("FMSR")>>),
            Line("Dependency", LabelOf(scheme, k, n),
                 IF k = 1 THEN NoneText ELSE <<SRef(<<1>>)>>),
            Line("ExpectedOutput", LabelOf(scheme, k, n), OutText(k)) >>
         \o MkLabelled(k + 1, n, scheme)

\* replies whose labels are out of order, repeated or gapped
LabelReplies ==
    { MkLabelled(1, n, scheme) : n \in 1..MaxSteps, scheme \in LabelSchemes }

\* replies with lines that no pattern matches
MalformedReplies ==
    { <<Line("Other", <<>>, <<W("Sorry")>>)>>,
      <<Line("Task", <<>>, TaskText(1)), Line("Agent", <<1>>, <<>>)>>,
      <<Line("Task", <<1>>, <<>>), Line("Agent", <<>>, <<W("IoT")>>),
        Line("Task", <<2>>, TaskText(2)), Line("Other", <<>>, <<>>),
        Line("Agent", <<2>>, <<W("IoT")>>)>> }

Replies ==
    CountReplies \cup DepReplies \cup NameReplies \cup MalformedReplies
        \cup LabelReplies

\* the arguments of generate_steps
PlanFilenames == { <<W("plan")>>, <<W("plan"), W(".txt")>> }

\* ------------------------------------------------------------- operations
\* _verify_tasks with "len(self.tasks) < 1" for "len(self.tasks) != 1"
_verify_tasks_atleast1(ts) ==
    IF ~ts.isList THEN "tasks must be a list of Task objects"
    ELSE IF Len(ts.items) < 1 THEN "Planning only supports one task"
    ELSE IF ts.items[1].agents.is_none \/ Len(ts.items[1].agents.list) < 1
         THEN "Task must have at least one agent"
    ELSE "ok"

\* _verify_tasks: the message of the ValueError it raises, or "ok"
_verify_tasks(ts) ==
    IF ~ts.isList THEN "tasks must be a list of Task objects"
    ELSE IF Len(ts.items) # 1 THEN "Planning only supports one task"
    ELSE IF ts.items[1].agents.is_none \/ Len(ts.items[1].agents.list) < 1
         THEN "Task must have at least one agent"
    ELSE "ok"

\* selected_agent without the break of line 159: the last match wins
selected_agent_last(roster, agent_name) ==
    IF \E k \in 1..Len(roster) : roster[k].name = agent_name
    THEN roster[CHOOSE k \in 1..Len(roster) :
                    /\ roster[k].name = agent_name
                    /\ \A j \in (k + 1)..Len(roster) :
                           roster[j].name # agent_name]
    ELSE roster[1]

\* lines 155-161: the first roster agent with that exact name, else the
\* roster's first agent
selected_agent(roster, agent_name) ==
    IF \E k \in 1..Len(roster) : roster[k].name = agent_name
    THEN roster[CHOOSE k \in 1..Len(roster) :
                    /\ roster[k].name = agent_name
                    /\ \A j \in 1..(k - 1) : roster[j].name # agent_name]
    ELSE roster[1]

\* line 165: the numbers of the #S tokens
numbers_of(dependency) ==
    LET ds == findall_S(dependency) IN [k \in 1..Len(ds) |-> int(ds[k])]

\* build_context with the numbers themselves kept as the context, not the
\* Task objects they select
build_context_raw(dependency, planned) ==
    IF dependency # NoneText
    THEN [raises |-> FALSE, context |-> numbers_of(dependency)]
    ELSE [raises |-> FALSE, context |-> <<>>]

\* build_context with every earlier sub-task as the context of a step
\* that declares no dependency
build_context_all(dependency, planned) ==
    IF dependency # NoneText
    THEN LET numbers == numbers_of(dependency)
         IN IF \E k \in 1..Len(numbers) : ~InRange(planned, numbers[k] - 1)
            THEN [raises |-> TRUE, context |-> <<>>]
            ELSE [raises |-> FALSE,
                  context |-> [k \in 1..Len(numbers) |->
                                   PyGet(planned, numbers[k] - 1).oid]]
    ELSE [raises |-> FALSE,
          context |-> [k \in 1..Len(planned) |-> planned[k].oid]]

\* build_context with planned_tasks[i] for planned_tasks[i - 1]
build_context_0based(dependency, planned) ==
    IF dependency # NoneText
    THEN LET numbers == numbers_of(dependency)
         IN IF \E k \in 1..Len(numbers) : ~InRange(planned, numbers[k])
            THEN [raises |-> TRUE, context |-> <<>>]
            ELSE [raises |-> FALSE,
                  context |-> [k \in 1..Len(numbers) |->
                                   PyGet(planned, numbers[k]).oid]]
    ELSE [raises |-> FALSE, context |-> <<>>]

\* build_context that passes over a number no sub-task answers to
build_context_skip(dependency, planned) ==
    IF dependency # NoneText
    THEN LET numbers == SelectSeq(numbers_of(dependency),
                                  LAMBDA n : InRange(planned, n - 1))
         IN [raises |-> FALSE,
             context |-> [k \in 1..Len(numbers) |->
                              PyGet(planned, numbers[k] - 1).oid]]
    ELSE [raises |-> FALSE, context |-> <<>>]

\* lines 163-168: the context list (Task objects, by oid); the list
\* comprehension of line 166 raises IndexError when some planned[n - 1] is
\* out of range
build_context(dependency, planned) ==
    IF dependency # NoneText
    THEN LET numbers == numbers_of(dependency)
         IN IF \E k \in 1..Len(numbers) : ~InRange(planned, numbers[k] - 1)
            THEN [raises |-> TRUE, context |-> <<>>]
            ELSE [raises |-> FALSE,
                  context |-> [k \in 1..Len(numbers) |->
                                   PyGet(planned, numbers[k] - 1).oid]]
    ELSE [raises |-> FALSE, context |-> <<>>]

\* lines 170-175: the Task object of a step
Task(oid, description, expected_output, agent_list, context) ==
    [oid |-> oid, description |-> description,
     expected_output |-> expected_output, agents |-> agent_list,
     context |-> context]

\* ------------------------------------------------------ scenario validator
\* A JSON value: its type tag, with the number of an integer or boolean and
\* the characters of a string.  A record maps every field name to a value
\* or to Absent.
Val(t, n, str) == [t |-> t, n |-> n, s |-> str]
Absent == Val("absent", 0, <<>>)
IntV(n) == Val("int", n, <<>>)
StrV(str) == Val("str", 0, str)
BoolV(b) == Val("bool", IF b THEN 1 ELSE 0, <<>>)
NullV == Val("null", 0, <<>>)
DictV == Val("dict", 0, <<>>)
ListV == Val("list", 0, <<>>)

\* the recognized fields, in schema order, and the fields outside the schema
Fields == <<"id", "text", "type", "category", "deterministic",
            "characteristic_form", "expected_result", "data", "source">>
ExtraFields == {"extra_field", "another_field"}
RecognizedFields == {Fields[k] : k \in 1..Len(Fields)}
AllFields == RecognizedFields \cup ExtraFields

\* str(n) of an integer: its decimal digits, with a minus sign if negative
DigitChars == <<"0", "1", "2", "3", "4", "5", "6", "7", "8", "9">>

RECURSIVE digits_of(_)
digits_of(n) ==
    IF n < 10 THEN <<DigitChars[n + 1]>>
    ELSE digits_of(n \div 10) \o <<DigitChars[(n % 10) + 1]>>

str(n) == IF n < 0 THEN <<"-">> \o digits_of(-n) ELSE digits_of(n)

\* coerce_id without the coercion: every id passes through
coerce_id_passthrough(v) == v

\* the id of a scenario: an integer becomes its string form, anything else
\* passes through
coerce_id(v) == IF v.t = "int" THEN StrV(str(v.n)) ELSE v

\* field_error with a text that must hold a character other than a blank
field_error_nonblank(field, v) ==
    CASE field = "id" -> IF v.t = "absent" THEN "missing" ELSE "ok"
      [] field = "text" ->
           IF v.t = "absent" THEN "missing"
           ELSE IF v.t # "str" THEN "type"
           ELSE IF \A k \in 1..Len(v.s) : v.s[k] = " " THEN "empty"
           ELSE "ok"
      [] field \in {"type", "category", "source"} ->
           IF v.t \in {"absent", "str"} THEN "ok" ELSE "type"
      [] field = "deterministic" ->
           IF v.t \in {"absent", "bool"} THEN "ok" ELSE "type"
      [] field = "characteristic_form" ->
           IF v.t \in {"absent", "str", "null"} THEN "ok" ELSE "type"
      [] field \in {"expected_result", "data"} ->
           IF v.t \in {"absent", "dict"} THEN "ok" ELSE "type"
      [] OTHER -> "ok"

\* field_error with a characteristic_form that must be a string when
\* present (null rejected)
field_error_no_null(field, v) ==
    CASE field = "id" -> IF v.t = "absent" THEN "missing" ELSE "ok"
      [] field = "text" ->
           IF v.t = "absent" THEN "missing"
           ELSE IF v.t = "str" THEN "ok" ELSE "type"
      [] field \in {"type", "category", "source", "characteristic_form"} ->
           IF v.t \in {"absent", "str"} THEN "ok" ELSE "type"
      [] field = "deterministic" ->
           IF v.t \in {"absent", "bool"} THEN "ok" ELSE "type"
      [] field \in {"expected_result", "data"} ->
           IF v.t \in {"absent", "dict"} THEN "ok" ELSE "type"
      [] OTHER -> "ok"

\* the check of one field: "missing", "type" or "ok"
field_error(field, v) ==
    CASE field = "id" -> IF v.t = "absent" THEN "missing" ELSE "ok"
      [] field = "text" ->
           IF v.t = "absent" THEN "missing"
           ELSE IF v.t = "str" THEN "ok" ELSE "type"
      [] field \in {"type", "category", "source"} ->
           IF v.t \in {"absent", "str"} THEN "ok" ELSE "type"
      [] field = "deterministic" ->
           IF v.t \in {"absent", "bool"} THEN "ok" ELSE "type"
      [] field = "characteristic_form" ->
           IF v.t \in {"absent", "str", "null"} THEN "ok" ELSE "type"
      [] field \in {"expected_result", "data"} ->
           IF v.t \in {"absent", "dict"} THEN "ok" ELSE "type"
      [] OTHER -> "ok"

\* the errors of the fields Fields[k..], one per offending field
RECURSIVE check_fields(_, _)
check_fields(record, k) ==
    IF k > Len(Fields) THEN <<>>
    ELSE (IF field_error(Fields[k], record[Fields[k]]) = "ok" THEN <<>>
          ELSE <<[field |-> Fields[k],
                  problem |-> field_error(Fields[k], record[Fields[k]])]>>)
         \o check_fields(record, k + 1)

\* validate that rejects the fields outside the schema
validate_scenario_forbid(record) ==
    check_fields(record, 1)
    \o (IF record["extra_field"].t # "absent"
        THEN <<[field |-> "extra_field", problem |-> "extra"]>> ELSE <<>>)
    \o (IF record["another_field"].t # "absent"
        THEN <<[field |-> "another_field", problem |-> "extra"]>> ELSE <<>>)

\* validate(record): the list of error strings, empty on success
validate_scenario(record) == check_fields(record, 1)

\* Scenario(**record): the recognized fields, with the id coerced
Scenario(record) ==
    [f \in RecognizedFields |->
        IF f = "id" THEN coerce_id(record[f]) ELSE record[f]]

\* the errors of one entry of a file, each with the file name and the
\* position of the entry
located(errors, name, at) ==
    [k \in 1..Len(errors) |->
        [file |-> name, at |-> at, field |-> errors[k].field,
         problem |-> errors[k].problem]]

\* validate_file that stops at the first invalid entry
add_entry_errors_stop(so_far, entry, name, at) ==
    IF entry.blank \/ so_far # <<>> THEN so_far
    ELSE so_far \o located(validate_scenario(entry.record), name, at)

\* validate_file, one entry: a blank line is skipped, the errors of a
\* record are added to the errors collected so far
add_entry_errors(so_far, entry, name, at) ==
    IF entry.blank THEN so_far
    ELSE so_far \o located(validate_scenario(entry.record), name, at)

\* a data file: its name ends with the extension ".json" or ".jsonl"
is_data_file(name) ==
    Len(name) > 0 /\ name[Len(name)] \in {W(".json"), W(".jsonl")}

\* find_json_files with the extension sought anywhere in the name
find_json_files_anywhere(dir, recursive) ==
    SelectSeq(dir, LAMBDA e :
        /\ (recursive \/ ~e.in_subdir)
        /\ \E k \in 1..Len(e.name) :
               e.name[k] \in {W(".json"), W(".jsonl")})

\* find_json_files(directory): the entries of the listing that are data
\* files, those of sub-directories only in a recursive scan
find_json_files(dir, recursive) ==
    SelectSeq(dir, LAMBDA e :
        (recursive \/ ~e.in_subdir) /\ is_data_file(e.name))

\* ------------------------------------------------------ validator inputs
\* the files a directory may hold
CandidateFiles ==
    << <<W("test"), W(".json")>>,
       <<W("test"), W(".jsonl")>>,
       <<W("test"), W(".txt")>>,
       <<W("test"), W(".py")>>,
       <<W("notes"), W(".json"), W(".bak")>>,
       <<W("json")>> >>

\* the listing of the directory that holds candidate k at place[k]
RECURSIVE listing(_, _)
listing(place, k) ==
    IF k > Len(CandidateFiles) THEN <<>>
    ELSE (IF place[k] = "absent" THEN <<>>
          ELSE <<[name |-> CandidateFiles[k],
                  in_subdir |-> (place[k] = "sub")]>>)
         \o listing(place, k + 1)

\* every candidate is absent, in the directory or in a sub-directory
Directories ==
    { listing(place, 1) :
        place \in [1..Len(CandidateFiles) -> {"absent", "top", "sub"}] }

EmptyRecord == [f \in AllFields |-> Absent]

Chars113 == <<"1", "1", "3">>

MinimalRecord ==
    [EmptyRecord EXCEPT !["id"] = StrV(<<"0", "0", "1">>),
                        !["text"] = StrV(<<"W", "h", "a", "t", "?">>)]

FullRecord ==
    [EmptyRecord EXCEPT !["id"] = StrV(Chars113),
                        !["text"] = StrV(<<"I", "f", "?">>),
                        !["type"] = StrV(<<"F", "M", "S", "R">>),
                        !["category"] = StrV(<<"K", "Q">>),
                        !["deterministic"] = BoolV(FALSE),
                        !["characteristic_form"] = StrV(<<"s">>),
                        !["expected_result"] = DictV,
                        !["data"] = DictV,
                        !["source"] = StrV(<<"f">>)]

\* the values a field takes in the records checked
Options(f) ==
    CASE f = "id" -> {Absent, IntV(113), IntV(7), IntV(0), IntV(-40),
                       StrV(Chars113), StrV(<<"a", "7">>)}
      [] f = "text" -> {Absent, StrV(<<"q">>), StrV(<<>>),
                         StrV(<<" ", " ", " ">>), IntV(5), NullV}
      [] f = "type" -> {Absent, StrV(<<"T", "S", "F", "M">>), IntV(1)}
      [] f = "category" -> {Absent, StrV(<<"I", "Q">>), BoolV(TRUE)}
      [] f = "deterministic" -> {Absent, BoolV(TRUE), BoolV(FALSE),
                                  StrV(<<"y">>)}
      [] f = "characteristic_form" -> {Absent, StrV(<<"x">>), NullV, IntV(3)}
      [] f = "expected_result" -> {Absent, DictV, StrV(<<"r">>)}
      [] f = "data" -> {Absent, DictV, ListV}
      [] f = "source" -> {Absent, StrV(<<"d">>), IntV(2)}
      [] OTHER -> {Absent, DictV}

\* the values the two extra fields take together
ExtraOptions ==
    { <<Absent, Absent>>, <<StrV(<<"i">>), IntV(123)>>, <<DictV, Absent>>,
      <<NullV, ListV>> }

\* the records that differ from r in at most one recognized field
Overrides(r) ==
    UNION { { [r EXCEPT ![f] = v] : v \in Options(f) } :
            f \in RecognizedFields }

\* the records that differ from r in the extra fields only
WithExtras(r) ==
    { [r EXCEPT !["extra_field"] = e[1], !["another_field"] = e[2]] :
        e \in ExtraOptions }

\* a base record with up to two recognized fields and the two extra fields
\* set to any of their options
Records ==
    UNION { WithExtras(r2) :
            r2 \in UNION { Overrides(r1) :
                           r1 \in Overrides(MinimalRecord)
                                  \cup Overrides(FullRecord) } }

\* an entry of a file: a record, or a blank line of a JSONL stream
RecordEntry(r) == [blank |-> FALSE, record |-> r]
BlankLine == [blank |-> TRUE, record |-> EmptyRecord]

\* the records of the files checked: two valid ones, one with an extra
\* field, one without text, one with two problems
FileRecords ==
    { MinimalRecord,
      FullRecord,
      [FullRecord EXCEPT !["id"] = IntV(113), !["extra_field"] = IntV(9)],
      [EmptyRecord EXCEPT !["id"] = StrV(<<"9", "9", "9">>)],
      [MinimalRecord EXCEPT !["id"] = Absent, !["type"] = IntV(1)] }

\* a JSON array of records, or a JSONL stream of records and blank lines
ScenarioFiles ==
    UNION { { [format |-> "json", name |-> <<W("scenarios"), W(".json")>>,
               entries |-> es] :
                es \in [1..n -> {RecordEntry(r) : r \in FileRecords}] }
            \cup
            { [format |-> "jsonl", name |-> <<W("scenarios"), W(".jsonl")>>,
               entries |-> es] :
                es \in [1..n -> {RecordEntry(r) : r \in FileRecords}
                                \cup {BlankLine}] } :
            n \in 0..MaxRecords }

\* ---------------------------------------------------------------- actions
Init ==
    /\ pc = "new"
    /\ self_tasks = [isList |-> TRUE, items |-> <<>>]
    /\ llm = ""
    /\ memory = <<>>
    /\ max_memory = 0
    /\ max_retries = 0
    /\ save_plan = FALSE
    /\ saved_plan_filename = <<>>
    /\ llm_calls = 0
    /\ final_plan = <<>>
    /\ tasks = <<>> /\ agents = <<>> /\ dependencies = <<>> /\ outputs = <<>>
    /\ files = {}
    /\ raised = "none"
    /\ planned_tasks = <<>>
    /\ i = 0
    /\ next_oid = 1
    /\ result = <<>>
    /\ v_pc = "idle"
    /\ v_record = EmptyRecord
    /\ v_errors = <<>>
    /\ v_scenario = Scenario(EmptyRecord)
    /\ v_file = [format |-> "json", name |-> <<>>, entries |-> <<>>]
    /\ v_index = 0
    /\ v_file_errors = <<>>
    /\ v_dir = <<>>
    /\ v_recursive = FALSE
    /\ v_found = <<>>

\* NewPlanningWorkflow(tasks, llm): __init__ with _verify_tasks
Construct ==
    /\ pc = "new"
    /\ \E ts \in TasksArgs :
         /\ self_tasks' = ts
         /\ next_oid' = Len(ts.items) + 1
         /\ IF _verify_tasks(ts) = "ok"
            THEN pc' = "ready" /\ raised' = raised
            ELSE pc' = "config_error" /\ raised' = "ValueError"
    /\ memory' = <<>>
    /\ max_memory' = MaxMemoryValue
    /\ llm' = "model-id"
    /\ max_retries' = MaxRetriesValue
    /\ UNCHANGED <<save_plan, saved_plan_filename, llm_calls, final_plan,
                   tasks, agents, dependencies, outputs, files,
                   planned_tasks, i, result>>
    /\ UNCHANGED vvars

\* self.memory is a plain attribute of the workflow object (line 30): the
\* code that holds the object leaves an entry in it before generate_steps
Remember ==
    /\ pc = "ready"
    /\ Len(memory) < MaxEntries
    /\ memory' = Append(memory, W("entry"))
    /\ UNCHANGED <<pc, self_tasks, llm, max_memory, max_retries, save_plan,
                   saved_plan_filename, llm_calls, final_plan, tasks,
                   agents, dependencies, outputs, files, raised,
                   planned_tasks, i, next_oid, result>>
    /\ UNCHANGED vvars

\* CallModel without line 120: the memory is left as it was
CallModel_keep_memory ==
    /\ pc = "ready"
    /\ \/ save_plan' = FALSE /\ saved_plan_filename' = <<>>
       \/ save_plan' = TRUE /\ saved_plan_filename' \in PlanFilenames
    /\ llm_calls' = llm_calls + 1
    /\ final_plan' \in Replies
    /\ memory' = memory
    /\ pc' = "parse"
    /\ UNCHANGED <<self_tasks, llm, max_memory, max_retries, tasks, agents,
                   dependencies, outputs, files, raised, planned_tasks, i,
                   next_oid, result>>
    /\ UNCHANGED vvars

\* generate_steps, lines 54-120: the prompt is sent to the model once and
\* the reply is kept; memory is reset
CallModel ==
    /\ pc = "ready"
    /\ \/ save_plan' = FALSE /\ saved_plan_filename' = <<>>
       \/ save_plan' = TRUE /\ saved_plan_filename' \in PlanFilenames
    /\ llm_calls' = llm_calls + 1
    /\ final_plan' \in Replies
    /\ memory' = <<>>
    /\ pc' = "parse"
    /\ UNCHANGED <<self_tasks, llm, max_memory, max_retries, tasks, agents,
                   dependencies, outputs, files, raised, planned_tasks, i,
                   next_oid, result>>
    /\ UNCHANGED vvars

\* generate_steps, lines 122-130: the four findall calls
Parse ==
    /\ pc = "parse"
    /\ tasks' = findall("Task", final_plan)
    /\ agents' = findall("Agent", final_plan)
    /\ dependencies' = findall("Dependency", final_plan)
    /\ outputs' = findall("ExpectedOutput", final_plan)
    /\ pc' = "save"
    /\ UNCHANGED <<self_tasks, llm, memory, max_memory, max_retries,
                   save_plan, saved_plan_filename, llm_calls, final_plan,
                   files, raised, planned_tasks, i, next_oid, result>>
    /\ UNCHANGED vvars

\* endswith that never finds the suffix: ".txt" is always appended
endswith_txt_never(name) == FALSE

\* str.endswith(".txt")
endswith_txt(name) == Len(name) > 0 /\ name[Len(name)] = W(".txt")

\* open(name, "w").write(text): the file is created or replaced
write_file(fs, name, text) ==
    {f \in fs : f.name # name} \cup {[name |-> name, content |-> text]}

\* generate_steps, lines 132-140: the optional plan file, then the empty
\* planned_tasks list
SavePlan ==
    /\ pc = "save"
    /\ IF save_plan
       THEN LET name == IF ~endswith_txt(saved_plan_filename)
                        THEN saved_plan_filename \o <<W(".txt")>>
                        ELSE saved_plan_filename
                text == [question |-> self_tasks.items[1].description,
                         plan |-> final_plan]
            IN /\ saved_plan_filename' = name
               /\ files' = write_file(files, name, text)
       ELSE UNCHANGED <<saved_plan_filename, files>>
    /\ planned_tasks' = <<>>
    /\ i' = 0
    /\ pc' = "loop"
    /\ UNCHANGED <<self_tasks, llm, memory, max_memory, max_retries,
                   save_plan, llm_calls, final_plan, tasks, agents,
                   dependencies, outputs, raised, next_oid, result>>
    /\ UNCHANGED vvars

\* BuildStep with a step that has no dependency line made to depend on
\* the step before it
BuildStep_chain_default ==
    /\ pc = "loop"
    /\ i < Len(tasks)
    /\ i # Len(agents)
    /\ LET task_description == tasks[i + 1]
           agent_name == agents[i + 1]
           dependency == IF i < Len(dependencies) THEN dependencies[i + 1]
                         ELSE ChainDep(i + 1)
           expected_output == IF i < Len(outputs) THEN outputs[i + 1]
                              ELSE <<>>
           roster == self_tasks.items[1].agents.list
           built == build_context(dependency, planned_tasks)
       IN IF built.raises
          THEN /\ pc' = "raised"
               /\ raised' = "IndexError"
               /\ UNCHANGED <<planned_tasks, i, next_oid>>
          ELSE /\ planned_tasks' =
                     Append(planned_tasks,
                            Task(next_oid, task_description, expected_output,
                                 <<selected_agent(roster, agent_name)>>,
                                 built.context))
               /\ next_oid' = next_oid + 1
               /\ i' = i + 1
               /\ UNCHANGED <<pc, raised>>
    /\ UNCHANGED <<self_tasks, llm, memory, max_memory, max_retries,
                   save_plan, saved_plan_filename, llm_calls, final_plan,
                   tasks, agents, dependencies, outputs, files, result>>
    /\ UNCHANGED vvars

\* BuildStep with the model asked again when a step cannot be built
BuildStep_retry ==
    /\ pc = "loop"
    /\ i < Len(tasks)
    /\ i # Len(agents)
    /\ LET task_description == tasks[i + 1]
           agent_name == agents[i + 1]
           dependency == IF i < Len(dependencies) THEN dependencies[i + 1]
                         ELSE NoneText
           expected_output == IF i < Len(outputs) THEN outputs[i + 1]
                              ELSE <<>>
           roster == self_tasks.items[1].agents.list
           built == build_context(dependency, planned_tasks)
       IN IF built.raises
          THEN /\ pc' = "ready"
               /\ raised' = "none"
               /\ UNCHANGED <<planned_tasks, i, next_oid>>
          ELSE /\ planned_tasks' =
                     Append(planned_tasks,
                            Task(next_oid, task_description, expected_output,
                                 <<selected_agent(roster, agent_name)>>,
                                 built.context))
               /\ next_oid' = next_oid + 1
               /\ i' = i + 1
               /\ UNCHANGED <<pc, raised>>
    /\ UNCHANGED <<self_tasks, llm, memory, max_memory, max_retries,
                   save_plan, saved_plan_filename, llm_calls, final_plan,
                   tasks, agents, dependencies, outputs, files, result>>
    /\ UNCHANGED vvars

\* generate_steps, lines 141-176: one iteration of the build loop
BuildStep ==
    /\ pc = "loop"
    /\ i < Len(tasks)
    /\ i # Len(agents)
    /\ LET task_description == tasks[i + 1]
           agent_name == agents[i + 1]
           dependency == IF i < Len(dependencies) THEN dependencies[i + 1]
                         ELSE NoneText
           expected_output == IF i < Len(outputs) THEN outputs[i + 1]
                              ELSE <<>>
           roster == self_tasks.items[1].agents.list
           built == build_context(dependency, planned_tasks)
       IN IF built.raises
          THEN /\ pc' = "raised"
               /\ raised' = "IndexError"
               /\ UNCHANGED <<planned_tasks, i, next_oid>>
          ELSE /\ planned_tasks' =
                     Append(planned_tasks,
                            Task(next_oid, task_description, expected_output,
                                 <<selected_agent(roster, agent_name)>>,
                                 built.context))
               /\ next_oid' = next_oid + 1
               /\ i' = i + 1
               /\ UNCHANGED <<pc, raised>>
    /\ UNCHANGED <<self_tasks, llm, memory, max_memory, max_retries,
                   save_plan, saved_plan_filename, llm_calls, final_plan,
                   tasks, agents, dependencies, outputs, files, result>>
    /\ UNCHANGED vvars

\* Return with the return statement inside the loop body: the list is
\* handed back after the first sub-task
Return_indented ==
    /\ pc = "loop"
    /\ (i >= 1 \/ i >= Len(tasks) \/ i = Len(agents))
    /\ result' = planned_tasks
    /\ pc' = "returned"
    /\ UNCHANGED <<self_tasks, llm, memory, max_memory, max_retries,
                   save_plan, saved_plan_filename, llm_calls, final_plan,
                   tasks, agents, dependencies, outputs, files, raised,
                   planned_tasks, i, next_oid>>
    /\ UNCHANGED vvars

\* generate_steps, lines 141-144 and 178-180: the loop ends (no task line
\* left, or no agent line for the index) and the list is returned
Return ==
    /\ pc = "loop"
    /\ (i >= Len(tasks) \/ i = Len(agents))
    /\ result' = planned_tasks
    /\ pc' = "returned"
    /\ UNCHANGED <<self_tasks, llm, memory, max_memory, max_retries,
                   save_plan, saved_plan_filename, llm_calls, final_plan,
                   tasks, agents, dependencies, outputs, files, raised,
                   planned_tasks, i, next_oid>>
    /\ UNCHANGED vvars

\* validate_scenario(record)
ValidateScenario ==
    /\ v_pc = "idle"
    /\ v_record' \in Records
    /\ v_errors' = validate_scenario(v_record')
    /\ v_pc' = "validated"
    /\ UNCHANGED <<v_scenario, v_file, v_index, v_file_errors, v_dir,
                   v_recursive, v_found>>
    /\ UNCHANGED pvars

\* Scenario(**record) of a record that validated
MakeScenario ==
    /\ v_pc = "validated"
    /\ v_errors = <<>>
    /\ v_scenario' = Scenario(v_record)
    /\ v_pc' = "scenario"
    /\ UNCHANGED <<v_record, v_errors, v_file, v_index, v_file_errors,
                   v_dir, v_recursive, v_found>>
    /\ UNCHANGED pvars

\* validate_file(path): the file is loaded
LoadFile ==
    /\ v_pc = "idle"
    /\ v_file' \in ScenarioFiles
    /\ v_index' = 0
    /\ v_file_errors' = <<>>
    /\ v_pc' = "file_loop"
    /\ UNCHANGED <<v_record, v_errors, v_scenario, v_dir, v_recursive,
                   v_found>>
    /\ UNCHANGED pvars

\* validate_file: the next entry is checked and its errors are added; a
\* blank line is skipped
CheckEntry ==
    /\ v_pc = "file_loop"
    /\ v_index < Len(v_file.entries)
    /\ v_file_errors' =
           add_entry_errors(v_file_errors, v_file.entries[v_index + 1],
                            v_file.name, v_index + 1)
    /\ v_index' = v_index + 1
    /\ UNCHANGED <<v_pc, v_record, v_errors, v_scenario, v_file, v_dir,
                   v_recursive, v_found>>
    /\ UNCHANGED pvars

\* validate_file: every entry was checked and the errors are returned
FileDone ==
    /\ v_pc = "file_loop"
    /\ v_index = Len(v_file.entries)
    /\ v_pc' = "file_done"
    /\ UNCHANGED <<v_record, v_errors, v_scenario, v_file, v_index,
                   v_file_errors, v_dir, v_recursive, v_found>>
    /\ UNCHANGED pvars

\* find_json_files(directory)
ScanDirectory ==
    /\ v_pc = "idle"
    /\ v_dir' \in Directories
    /\ v_recursive' \in BOOLEAN
    /\ v_found' = find_json_files(v_dir', v_recursive')
    /\ v_pc' = "scanned"
    /\ UNCHANGED <<v_record, v_errors, v_scenario, v_file, v_index,
                   v_file_errors>>
    /\ UNCHANGED pvars

Next ==
    \/ Construct \/ Remember \/ CallModel \/ Parse \/ SavePlan \/ BuildStep
    \/ Return

Spec == Init /\ [][Next]_vars

NextValidator ==
    \/ ValidateScenario \/ MakeScenario \/ LoadFile \/ CheckEntry \/ FileDone
    \/ ScanDirectory

SpecValidator == Init /\ [][NextValidator]_vars

\* ------------------------------------------------ properties of the planner
\* the roster of the one input task
Roster == self_tasks.items[1].agents.list

\* the run has a parsed reply
Parsed == pc \in {"save", "loop", "raised", "returned"}

\* the dependency text the k-th step is built from
StepDependency(k) ==
    IF k <= Len(dependencies) THEN dependencies[k] ELSE NoneText

\* the tasks argument is a list of exactly one task with a non-empty roster
WellShaped(ts) ==
    /\ ts.isList
    /\ Len(ts.items) = 1
    /\ ~ts.items[1].agents.is_none
    /\ Len(ts.items[1].agents.list) >= 1

\* C1: a workflow constructed with tasks that are no list, not exactly one
\* task, or a task whose roster is missing or empty has raised ValueError in
\* the constructor; the model was never called and no plan exists.
C1_ConfigErrorStopsPlanning ==
    (pc # "new" /\ ~WellShaped(self_tasks)) =>
        /\ pc = "config_error"
        /\ raised = "ValueError"
        /\ llm_calls = 0
        /\ final_plan = <<>>
        /\ planned_tasks = <<>>
        /\ result = <<>>

C1_Witness ==
    /\ pc = "config_error"
    /\ self_tasks.isList
    /\ Len(self_tasks.items) = 1
    /\ ~self_tasks.items[1].agents.is_none
    /\ self_tasks.items[1].agents.list = <<>>

\* the k-th sub-task's context holds only oids of sub-tasks at positions < k
EarlierOnly(plan) ==
    \A k \in 1..Len(plan) :
        \A j \in 1..Len(plan[k].context) :
            \E e \in 1..(k - 1) : plan[e].oid = plan[k].context[j]

\* C2: at every point of the build loop and in the returned plan, every
\* context entry of the sub-task at position k is a sub-task generated at an
\* earlier position of the same plan (no self or forward reference).
C2_ContextRefersEarlier ==
    /\ EarlierOnly(planned_tasks)
    /\ EarlierOnly(result)

C2_Witness ==
    /\ pc = "returned"
    /\ Len(result) = 3
    /\ Len(result[3].context) = 2
    /\ result[3].context[1] # result[3].context[2]

\* C3: when the dependency text of a built step is not "None", its context
\* has one entry per #S<n> token, in order, and the entry of a token is the
\* n-th sub-task generated before the step (n counted from 1).
C3_TokenSelectsNthPrevious ==
    \A k \in 1..Len(planned_tasks) :
        StepDependency(k) # NoneText =>
            LET numbers == numbers_of(StepDependency(k))
                context == planned_tasks[k].context
            IN /\ Len(context) = Len(numbers)
               /\ \A j \in 1..Len(numbers) :
                      /\ numbers[j] \in 1..(k - 1)
                      /\ context[j] = planned_tasks[numbers[j]].oid

\* C4: a step whose dependency text is the literal "None" gets an empty
\* context list, at any position and after any earlier sub-tasks.
C4_NoneGivesEmptyContext ==
    \A k \in 1..Len(planned_tasks) :
        (k <= Len(dependencies) /\ dependencies[k] = NoneText) =>
            planned_tasks[k].context = <<>>

C4_Witness ==
    /\ Len(planned_tasks) = 3
    /\ Len(dependencies) = 3
    /\ dependencies[3] = NoneText
    /\ planned_tasks[2].context # <<>>
    /\ planned_tasks[3].context = <<>>

\* C5: every generated sub-task has exactly one agent; it is the first
\* roster agent whose name is the reply's agent text, or the roster's first
\* agent when no roster name equals that text.
C5_OneRosterAgent ==
    \A k \in 1..Len(planned_tasks) :
        /\ Len(planned_tasks[k].agents) = 1
        /\ \E r \in 1..Len(Roster) :
              /\ planned_tasks[k].agents[1] = Roster[r]
              /\ \/ /\ Roster[r].name = agents[k]
                    /\ \A j \in 1..(r - 1) : Roster[j].name # agents[k]
                 \/ /\ r = 1
                    /\ \A j \in 1..Len(Roster) : Roster[j].name # agents[k]

C5_Witness ==
    /\ pc = "returned"
    /\ Len(Roster) = 3
    /\ Roster[2].name = Roster[3].name
    /\ \E k \in 1..Len(result) : result[k].agents = <<Roster[2]>>

\* the four sections of the parsed reply have the same number of lines
Matched ==
    /\ Parsed
    /\ Len(tasks) = Len(agents)
    /\ Len(tasks) = Len(dependencies)
    /\ Len(tasks) = Len(outputs)

\* C6 as stated: with a one-agent roster, generate_steps never raises on a
\* reply whose four sections have the same number of lines.
C6_NeverRaisesOnMatched ==
    (Parsed /\ Len(Roster) = 1 /\ Matched) => pc # "raised"

\* no #S<n> token of the k-th dependency line has n >= k, and no #S0 token
\* is on the first dependency line
RefsInRange ==
    \A k \in 1..Len(dependencies) :
        dependencies[k] # NoneText =>
            \A j \in 1..Len(numbers_of(dependencies[k])) :
                LET n == numbers_of(dependencies[k])[j]
                IN n < k /\ (n = 0 => k >= 2)

\* C6 amended: with a one-agent roster, the build loop never raises on a
\* reply with matched sections whose #S<n> tokens are all in range, and the
\* plan it returns has one sub-task per #Task line.
C6_NeverRaisesOnMatchedInRange ==
    (Parsed /\ Len(Roster) = 1 /\ Matched /\ RefsInRange) =>
        /\ pc # "raised"
        /\ pc = "returned" => Len(result) = Len(tasks)

C6_Witness ==
    /\ pc = "returned"
    /\ Len(Roster) = 1
    /\ Matched
    /\ RefsInRange
    /\ Len(result) = 3
    /\ \E k \in 1..3 : dependencies[k] = <<SRef(<<0>>)>>

\* ---------------------------------------------- properties of the validator
Validated == v_pc \in {"validated", "scenario"}

\* every optional field of the record is absent or has its declared shape
OptionalShapesOK(r) ==
    /\ \A f \in {"type", "category", "source"} : r[f].t \in {"absent", "str"}
    /\ r["deterministic"].t \in {"absent", "bool"}
    /\ r["characteristic_form"].t \in {"absent", "str", "null"}
    /\ \A f \in {"expected_result", "data"} : r[f].t \in {"absent", "dict"}

\* some error of the list names the field
Mentions(errors, f) == \E k \in 1..Len(errors) : errors[k].field = f

RECURSIVE DecimalValue(_)
DecimalValue(cs) ==
    IF Len(cs) = 0 THEN 0
    ELSE 10 * DecimalValue(SubSeq(cs, 1, Len(cs) - 1))
         + (CHOOSE d \in 0..9 : DigitChars[d + 1] = cs[Len(cs)])

\* cs is the decimal string of n: digits only, no leading zero, a minus
\* sign exactly when n is negative
IsDecimalOf(cs, n) ==
    LET body == IF n < 0 THEN Tail(cs) ELSE cs
    IN /\ Len(cs) >= 1
       /\ n < 0 => cs[1] = "-"
       /\ Len(body) >= 1
       /\ \A k \in 1..Len(body) : \E d \in 0..9 : DigitChars[d + 1] = body[k]
       /\ Len(body) > 1 => body[1] # "0"
       /\ DecimalValue(body) = (IF n < 0 THEN -n ELSE n)

\* C8: an integer id raises no error, and the scenario built from the record
\* has the decimal string of that integer as its id; a string id is the
\* scenario's id unchanged.
C8_IntegerIdBecomesString ==
    /\ (Validated /\ v_record["id"].t = "int") => ~Mentions(v_errors, "id")
    /\ (v_pc = "scenario" /\ v_record["id"].t = "int") =>
           /\ v_scenario["id"].t = "str"
           /\ IsDecimalOf(v_scenario["id"].s, v_record["id"].n)
    /\ (v_pc = "scenario" /\ v_record["id"].t = "str") =>
           v_scenario["id"] = v_record["id"]

C8_Witness ==
    /\ v_pc = "scenario"
    /\ v_record["id"] = IntV(113)
    /\ v_scenario["id"] = StrV(Chars113)

\* the record without its fields outside the recognized set
StripExtras(r) ==
    [f \in AllFields |-> IF f \in ExtraFields THEN Absent ELSE r[f]]

\* C9: the error list of a record is the error list of the same record
\* without its unrecognized fields, whatever their values, and no error
\* names an unrecognized field.
C9_ExtraFieldsIgnored ==
    Validated =>
        /\ v_errors = validate_scenario(StripExtras(v_record))
        /\ \A f \in ExtraFields : ~Mentions(v_errors, f)

C9_Witness ==
    /\ v_pc = "validated"
    /\ v_errors = <<>>
    /\ v_record["extra_field"] = StrV(<<"i">>)
    /\ v_record["another_field"] = IntV(123)

\* the number of errors of the records of the entries
RECURSIVE ErrorCount(_)
ErrorCount(entries) ==
    IF Len(entries) = 0 THEN 0
    ELSE (IF entries[1].blank THEN 0
          ELSE Len(validate_scenario(entries[1].record)))
         + ErrorCount(Tail(entries))

InvalidEntry(entry) ==
    ~entry.blank /\ validate_scenario(entry.record) # <<>>

\* C10: when validate_file returns, its list holds every error of every
\* invalid record of the file, wherever the record sits, and nothing else:
\* valid records add no entry, a file of valid records gives the empty list
\* and a file with an invalid record a non-empty one.
C10_EveryRecordChecked ==
    v_pc = "file_done" =>
        LET entries == v_file.entries
        IN /\ \A k \in 1..Len(entries) :
                  ~entries[k].blank =>
                      \A j \in 1..Len(validate_scenario(entries[k].record)) :
                          \E e \in 1..Len(v_file_errors) :
                              /\ v_file_errors[e].at = k
                              /\ v_file_errors[e].field =
                                     validate_scenario(entries[k].record)[j].field
                              /\ v_file_errors[e].problem =
                                     validate_scenario(entries[k].record)[j].problem
           /\ \A e \in 1..Len(v_file_errors) :
                  /\ v_file_errors[e].at \in 1..Len(entries)
                  /\ InvalidEntry(entries[v_file_errors[e].at])
           /\ Len(v_file_errors) = ErrorCount(entries)
           /\ (v_file_errors = <<>>) <=>
                  (\A k \in 1..Len(entries) : ~InvalidEntry(entries[k]))

C10_Witness ==
    /\ v_pc = "file_done"
    /\ Len(v_file.entries) = 3
    /\ InvalidEntry(v_file.entries[1])
    /\ ~InvalidEntry(v_file.entries[2])
    /\ InvalidEntry(v_file.entries[3])
    /\ \E e \in 1..Len(v_file_errors) : v_file_errors[e].at = 3

\* the entry is within the scope of the scan
InScope(e) == v_recursive \/ ~e.in_subdir

\* C11: find_json_files returns exactly the files of the directory whose
\* extension is ".json" or ".jsonl": each of them once, and no file with
\* another extension.
C11_ExactlyTheDataFiles ==
    v_pc = "scanned" =>
        /\ \A k \in 1..Len(v_dir) :
               ( /\ InScope(v_dir[k])
                 /\ v_dir[k].name[Len(v_dir[k].name)]
                        \in {W(".json"), W(".jsonl")} ) =>
                   Cardinality({f \in 1..Len(v_found) :
                                    v_found[f] = v_dir[k]}) = 1
        /\ \A f \in 1..Len(v_found) :
               /\ \E k \in 1..Len(v_dir) : v_dir[k] = v_found[f]
               /\ InScope(v_found[f])
               /\ v_found[f].name[Len(v_found[f].name)]
                      \in {W(".json"), W(".jsonl")}

C11_Witness ==
    /\ v_pc = "scanned"
    /\ Len(v_dir) = 4
    /\ \A k \in 1..4 :
           v_dir[k] = [name |-> CandidateFiles[k], in_subdir |-> FALSE]
    /\ v_found = <<v_dir[1], v_dir[2]>>

Offending(dependency, built) ==
    /\ dependency # NoneText
    /\ \E p \in 1..Len(dependency) :
           /\ dependency[p].w = "#S"
           /\ Len(dependency[p].digits) > 0
           /\ int(dependency[p].digits) > built

\* the loop body is about to run for index i
AtStep == pc = "loop" /\ i < Len(tasks) /\ i # Len(agents)

\* C13: a step whose dependency text holds #S<n> with n greater than the
\* number of sub-tasks built so far makes generate_steps end with an
\* uncaught IndexError; the run never returns, so no plan is handed back,
\* not even the sub-tasks built before that step.
C13_OutOfRangeAborts ==
    [][ /\ (AtStep /\ Offending(StepDependency(i + 1), Len(planned_tasks)))
            => (pc' = "raised" /\ raised' = "IndexError" /\ result' = <<>>)
        /\ pc = "raised" => (pc' = "raised" /\ result' = <<>>) ]_vars

C13_Witness ==
    /\ pc = "raised"
    /\ raised = "IndexError"
    /\ Len(planned_tasks) = 1
    /\ Offending(StepDependency(2), 1)
    /\ result = <<>>

Min(a, b) == IF a <= b THEN a ELSE b

\* C14 as stated: the number of generated sub-tasks is the number of #Agent
\* lines of the reply.
C14_CountIsAgentLines ==
    pc = "returned" => Len(result) = Len(agents)

\* C14: the loop walks the indices from 0 and builds the sub-task of index
\* i from the i-th #Task line while both a #Task line and an #Agent line
\* exist at index i; a returned plan has min(#Task lines, #Agent lines)
\* sub-tasks.
C14_CountIsMinOfTaskAndAgentLines ==
    /\ pc \in {"loop", "raised", "returned"} =>
           /\ i = Len(planned_tasks)
           /\ i <= Min(Len(tasks), Len(agents))
           /\ \A k \in 1..Len(planned_tasks) :
                  planned_tasks[k].description = tasks[k]
    /\ pc = "returned" =>
           /\ result = planned_tasks
           /\ Len(result) = Min(Len(tasks), Len(agents))

C14_Witness ==
    /\ pc = "returned"
    /\ Len(tasks) = 1
    /\ Len(agents) = 3
    /\ Len(result) = 1

\* no line of the reply is a labelled section line with a text
NoUsableLine ==
    \A p \in 1..Len(final_plan) :
        ~ ( /\ final_plan[p].kind
                   \in {"Task", "Agent", "Dependency", "ExpectedOutput"}
            /\ Len(final_plan[p].label) > 0
            /\ Len(final_plan[p].text) > 0 )

\* C15: a reply that is empty or holds no usable labelled section line
\* makes generate_steps return an empty plan; nothing is raised and no
\* sub-task is built.
C15_MalformedReplyGivesEmptyPlan ==
    (Parsed /\ NoUsableLine) =>
        /\ pc # "raised"
        /\ raised = "none"
        /\ ~AtStep
        /\ planned_tasks = <<>>
        /\ pc = "returned" => result = <<>>

C15_Witness ==
    /\ pc = "returned"
    /\ Len(final_plan) = 2
    /\ NoUsableLine
    /\ result = <<>>
    /\ raised = "none"

\* the model has not been called yet in this run
BeforeCall == pc \in {"new", "config_error", "ready"}

\* C16: a call of generate_steps asks the model exactly once, before any
\* parsing, and never again: whatever the parsing gives (an empty plan, a
\* truncated plan, an IndexError) there is no retry, although max_retries
\* is 5.
C16_ModelCalledExactlyOnce ==
    /\ llm_calls = (IF BeforeCall THEN 0 ELSE 1)
    /\ (BeforeCall \/ pc = "parse") =>
           /\ tasks = <<>> /\ agents = <<>>
           /\ dependencies = <<>> /\ outputs = <<>>
    /\ pc \notin {"new", "config_error"} => max_retries = 5

C16_Witness ==
    /\ pc = "raised"
    /\ raised = "IndexError"
    /\ llm_calls = 1
    /\ max_retries = 5

\* the name of the plan file for the name handed to generate_steps
PlanFileName(given) ==
    IF Len(given) > 0 /\ given[Len(given)] = W(".txt")
    THEN given
    ELSE given \o <<W(".txt")>>

\* C17: with persistence enabled generate_steps writes one file, named by
\* the given name when that ends with ".txt" and by the given name with
\* ".txt" appended otherwise, holding the goal text followed by the raw
\* reply; with persistence disabled no file is written.
C17_PlanFile ==
    [][ /\ pc = "save" =>
               IF save_plan
               THEN files' =
                      {[name    |-> PlanFileName(saved_plan_filename),
                        content |->
                          [question |-> self_tasks.items[1].description,
                           plan     |-> final_plan]]}
               ELSE files' = {}
        /\ pc # "save" => files' = files ]_vars

C17_Witness ==
    /\ pc = "returned"
    /\ save_plan
    /\ Len(final_plan) > 0
    /\ files = {[name    |-> <<W("plan"), W(".txt")>>,
                 content |-> [question |-> self_tasks.items[1].description,
                              plan     |-> final_plan]]}

\* line p of the reply is a usable line of that kind
Usable(p, kind) ==
    /\ final_plan[p].kind = kind
    /\ Len(final_plan[p].label) > 0
    /\ Len(final_plan[p].text) > 0

CountOf(kind) ==
    Cardinality({p \in 1..Len(final_plan) : Usable(p, kind)})

\* the text of the k-th usable line of that kind, by position in the reply
NthText(kind, k) ==
    final_plan[CHOOSE p \in 1..Len(final_plan) :
                   /\ Usable(p, kind)
                   /\ Cardinality({q \in 1..p : Usable(q, kind)}) = k].text

\* the list parsed for a kind
ParsedList(kind) ==
    CASE kind = "Task" -> tasks
      [] kind = "Agent" -> agents
      [] kind = "Dependency" -> dependencies
      [] OTHER -> outputs

\* C18: the i-th sub-task is assembled from the i-th #Task, #Agent,
\* #Dependency and #ExpectedOutput lines in their order of occurrence in the
\* reply; the number in a label is never read, so lines with out-of-order,
\* repeated or gapped labels are paired by occurrence.
C18_PairedByOccurrence ==
    /\ pc \in {"save", "loop", "raised", "returned"} =>
           \A kind \in {"Task", "Agent", "Dependency", "ExpectedOutput"} :
               /\ Len(ParsedList(kind)) = CountOf(kind)
               /\ \A k \in 1..CountOf(kind) :
                      ParsedList(kind)[k] = NthText(kind, k)
    /\ \A k \in 1..Len(planned_tasks) :
           /\ planned_tasks[k].description = NthText("Task", k)
           /\ planned_tasks[k].agents =
                  <<selected_agent(Roster, NthText("Agent", k))>>
           /\ k <= CountOf("ExpectedOutput") =>
                  planned_tasks[k].expected_output
                      = NthText("ExpectedOutput", k)
           /\ k <= CountOf("Dependency") =>
                  planned_tasks[k].context =
                      build_context(NthText("Dependency", k),
                                    SubSeq(planned_tasks, 1, k - 1)).context

C18_Witness ==
    /\ pc = "returned"
    /\ Len(result) = 2
    /\ \E p \in 1..Len(final_plan) :
           /\ final_plan[p].kind = "Task"
           /\ final_plan[p].label = <<1>>
           /\ final_plan[p].text = result[2].description
    /\ \E p \in 1..Len(final_plan) :
           /\ final_plan[p].kind = "Task"
           /\ final_plan[p].label = <<2>>
           /\ final_plan[p].text = result[1].description
    /\ result[1].description # result[2].description
    /\ result[2].context = <<result[1].oid>>

\* C19: a shortage of #Dependency or #ExpectedOutput lines never shortens
\* the plan: a step without a dependency line gets an empty context and is
\* never the step that raises, a step without an expected-output line gets
\* the empty string, and the returned plan still has
\* min(#Task lines, #Agent lines) sub-tasks.
C19_ShortSectionsDefaulted ==
    /\ \A k \in 1..Len(planned_tasks) :
           /\ k > CountOf("Dependency") => planned_tasks[k].context = <<>>
           /\ k > CountOf("ExpectedOutput") =>
                  planned_tasks[k].expected_output = <<>>
    /\ pc = "raised" => i < CountOf("Dependency")
    /\ pc = "returned" =>
           Len(result) = Min(CountOf("Task"), CountOf("Agent"))

C19_Witness ==
    /\ pc = "returned"
    /\ CountOf("Task") = 3 /\ CountOf("Agent") = 3
    /\ CountOf("Dependency") = 1 /\ CountOf("ExpectedOutput") = 0
    /\ Len(result) = 3
    /\ result[3].context = <<>>
    /\ result[3].expected_output = <<>>

\* every #S token of the dependency text of step k is #S0
OnlyZero(k) ==
    LET numbers == numbers_of(StepDependency(k))
    IN /\ StepDependency(k) # NoneText
       /\ Len(numbers) > 0
       /\ \A j \in 1..Len(numbers) : numbers[j] = 0

\* C20: #S0 is not rejected. On a step after the first it selects, through
\* index -1, the sub-task generated just before; a step with #S0 is built
\* unless it is the first, and only there, on the empty list, #S0 raises
\* IndexError.
C20_ZeroSelectsMostRecent ==
    /\ \A k \in 1..Len(planned_tasks) :
           LET numbers == numbers_of(StepDependency(k))
           IN StepDependency(k) # NoneText =>
                  \A j \in 1..Len(numbers) :
                      numbers[j] = 0 =>
                          /\ k >= 2
                          /\ planned_tasks[k].context[j]
                                 = planned_tasks[k - 1].oid
    /\ (pc = "raised" /\ OnlyZero(i + 1)) =>
           (i = 0 /\ raised = "IndexError")

C20_Witness ==
    /\ pc = "returned"
    /\ Len(result) = 3
    /\ StepDependency(3) = <<SRef(<<0>>)>>
    /\ result[3].context = <<result[2].oid>>

\* the plan file of this run, complete: the goal text and the whole reply
CompletePlanFile(f) ==
    /\ f.name = saved_plan_filename
    /\ f.name[Len(f.name)] = W(".txt")
    /\ f.content.question = self_tasks.items[1].description
    /\ f.content.plan = final_plan

\* C21: with persistence enabled the plan file is written after the reply
\* is received and before any sub-task is built, and the memory is reset
\* when the reply is received; a run that ends with IndexError on an
\* out-of-range dependency reference has therefore written the complete
\* plan file and has an empty memory.
C21_FileAndMemoryBeforeBuild ==
    [][ /\ files' # files =>
               /\ llm_calls = 1 /\ final_plan' = final_plan
               /\ planned_tasks = <<>> /\ planned_tasks' = <<>>
               /\ result' = <<>>
        /\ planned_tasks' # <<>> =>
               /\ memory' = <<>>
               /\ save_plan' =>
                      (Cardinality(files') = 1
                          /\ \A f \in files' : CompletePlanFile(f)')
        /\ pc' = "raised" =>
               /\ memory' = <<>>
               /\ save_plan' =>
                      (Cardinality(files') = 1
                          /\ \A f \in files' : CompletePlanFile(f)') ]_vars

C21_Witness ==
    /\ pc = "raised"
    /\ raised = "IndexError"
    /\ save_plan
    /\ Len(planned_tasks) = 1
    /\ Offending(StepDependency(2), 1)
    /\ memory = <<>>
    /\ Cardinality(files) = 1
    /\ \A f \in files : CompletePlanFile(f) /\ Len(f.content.plan) >= 4

====
